---- MODULE Spec2Model ----
(***************************************************************************)
(* Model of ttvrecorder.py: the Manager control loop (main thread), the    *)
(* worker threads executing Recorder.start() and the file-writer threads   *)
(* they spawn.  Threads interleave at the granularity of accesses to the   *)
(* shared fields state, stopper, q and current_filename; time.sleep is a   *)
(* step of the sleeping thread and orders nothing between threads.         *)
(*                                                                         *)
(* Steps that touch no shared field are folded into the neighbouring step  *)
(* of the same thread: opening the byte source and creating the writer     *)
(* thread follow the assignment of RUNNING in one step.  The outcome of    *)
(* ffmpeg and the responses of the search request are the environment.    *)
(* A chunk is 10*w+k for the k-th data chunk read by worker w and 0 for    *)
(* b"" (source exhausted).                                                 *)
(***************************************************************************)
EXTENDS Integers, Sequences, FiniteSets, TLC

\* Bounds of the model.
MaxWorkers == 2      \* worker threads Manager.run may launch
MaxReads == 2        \* chunks returned by fd.read over the whole run
MaxReauths == 2      \* 401 responses within one poll

Workers == 1..MaxWorkers

VARIABLES
    state,             \* Recorder.state
    stopper,           \* Recorder.stopper.is_set()
    q,                 \* Recorder.q
    current_filename,  \* Recorder.current_filename (0 = None)
    removed,           \* intermediate files deleted by os.remove
    mpc,               \* position of the main thread
    caller,            \* "run" while in Manager.run, "handler" after KeyboardInterrupt
    is_live,           \* local of Manager.run
    worker,            \* Manager.worker (0 = None)
    nlaunched,         \* threads created by Manager.run so far
    reauths,           \* nested is_channel_live calls of the current poll (one per 401)
    wpc,               \* position of each worker thread in Recorder.start
    fpc,               \* position of each worker's _writer thread
    wfile,             \* file each _writer has opened (0 = none)
    readlog,           \* chunks each worker has read and appended to q
    written            \* chunks each _writer has written to its file

vars == <<state, stopper, q, current_filename, removed, mpc, caller,
          is_live, worker, nlaunched, reauths, wpc, fpc, wfile, readlog, written>>

recVars == <<state, stopper, q, current_filename, removed>>
mgrVars == <<mpc, caller, is_live, worker, nlaunched, reauths>>
thrVars == <<wpc, fpc, wfile, readlog, written>>

\* Positions at which a worker thread has ended.
WTerminal == {"done", "assert_failed", "dead_open", "dead_read"}
\* Positions at which a worker thread is executing Recorder.start.
WActive == {"start_assert", "set_running", "loop_check", "read", "set_stopped"}
\* Positions at which a _writer thread has ended (its file is closed).
FTerminal == {"closed", "dead_pop", "dead_write"}
\* Positions at which the main thread has ended with an uncaught exception.
MCrashed == {"channel_not_found", "assert179_failed", "stop_assert_failed", "remove_failed"}
\* Positions of the main thread inside Recorder.stop.
StopPcs == {"stop_assert", "stop_set", "stop_wait", "stop_join", "stop_remux",
            "remux_ok", "remux_failed", "stop_reset"}
\* Positions of the main thread inside the try block around manager.run().
RunPcs == {"poll", "resp_no_match", "check", "assert179", "stop_assert", "stop_set", "stop_wait",
           "stop_join", "stop_remux", "remux_ok", "remux_failed", "stop_reset", "sleep"}

Init ==
    /\ state = "INITIALIZING"
    /\ stopper = FALSE
    /\ q = <<>>
    /\ current_filename = 0
    /\ removed = {}
    /\ mpc = "poll"
    /\ caller = "run"
    /\ is_live = FALSE
    /\ worker = 0
    /\ nlaunched = 0
    /\ reauths = 0
    /\ wpc = [w \in Workers |-> "idle"]
    /\ fpc = [w \in Workers |-> "none"]
    /\ wfile = [w \in Workers |-> 0]
    /\ readlog = [w \in Workers |-> <<>>]
    /\ written = [w \in Workers |-> <<>>]

----
\* Recorder.start, executed by worker thread w.

StartAssert(w) ==
    /\ wpc[w] = "start_assert"
    /\ wpc' = [wpc EXCEPT ![w] = IF state \in {"INITIALIZING", "STOPPED"}
                                 THEN "set_running" ELSE "assert_failed"]
    /\ UNCHANGED <<recVars, mgrVars, fpc, wfile, readlog, written>>

\* get_new_filename: every call yields a name of its own (distinct time stamps),
\* identified here with the worker that computes it.
get_new_filename(w) == w

StartRunningOpenOk(w) ==
    /\ wpc[w] = "set_running"
    /\ state' = "RUNNING"
    /\ current_filename' = get_new_filename(w)
    /\ wpc' = [wpc EXCEPT ![w] = "loop_check"]
    /\ fpc' = [fpc EXCEPT ![w] = "w_open"]
    /\ UNCHANGED <<stopper, q, removed, mgrVars, wfile, readlog, written>>

StartRunningOpenFail(w) ==
    /\ wpc[w] = "set_running"
    /\ state' = "RUNNING"
    /\ current_filename' = get_new_filename(w)
    /\ wpc' = [wpc EXCEPT ![w] = "dead_open"]
    /\ UNCHANGED <<stopper, q, removed, mgrVars, fpc, wfile, readlog, written>>

StartLoopCheck_unchecked(w) ==
    /\ wpc[w] = "loop_check"
    /\ wpc' = [wpc EXCEPT ![w] = "read"]
    /\ UNCHANGED <<recVars, mgrVars, fpc, wfile, readlog, written>>

StartLoopCheck(w) ==
    /\ wpc[w] = "loop_check"
    /\ wpc' = [wpc EXCEPT ![w] = IF stopper THEN "set_stopped" ELSE "read"]
    /\ UNCHANGED <<recVars, mgrVars, fpc, wfile, readlog, written>>

\* The byte source of worker w is exhausted once it has returned b"" (chunk 0).
Exhausted(w) == readlog[w] # <<>> /\ readlog[w][Len(readlog[w])] = 0
RECURSIVE SumLen(_)
SumLen(n) == IF n = 0 THEN 0 ELSE Len(readlog[n]) + SumLen(n - 1)
\* Chunks returned by fd.read so far, over all workers.
TotalReads == SumLen(MaxWorkers)
DataCount(w) == Cardinality({i \in 1..Len(readlog[w]) : readlog[w][i] # 0})
NextChunk(w) == w * 10 + DataCount(w) + 1

ReadAppend(w, c) ==
    /\ q' = Append(q, c)
    /\ readlog' = [readlog EXCEPT ![w] = Append(@, c)]
    /\ wpc' = [wpc EXCEPT ![w] = "loop_check"]
    /\ UNCHANGED <<state, stopper, current_filename, removed, mgrVars, fpc, wfile, written>>

StartReadData(w) ==
    /\ wpc[w] = "read"
    /\ TotalReads < MaxReads
    /\ ~Exhausted(w)
    /\ ReadAppend(w, NextChunk(w))

StartReadEmpty(w) ==
    /\ wpc[w] = "read"
    /\ TotalReads < MaxReads
    /\ ReadAppend(w, 0)

StartReadFail(w) ==
    /\ wpc[w] = "read"
    /\ wpc' = [wpc EXCEPT ![w] = "dead_read"]
    /\ UNCHANGED <<recVars, mgrVars, fpc, wfile, readlog, written>>

StartSetStopped_reinit(w) ==
    /\ wpc[w] = "set_stopped"
    /\ state' = "INITIALIZING"
    /\ wpc' = [wpc EXCEPT ![w] = "done"]
    /\ UNCHANGED <<stopper, q, current_filename, removed, mgrVars, fpc, wfile, readlog, written>>

StartSetStopped(w) ==
    /\ wpc[w] = "set_stopped"
    /\ state' = "STOPPED"
    /\ wpc' = [wpc EXCEPT ![w] = "done"]
    /\ UNCHANGED <<stopper, q, current_filename, removed, mgrVars, fpc, wfile, readlog, written>>

----
\* Recorder.start._writer, the file-writer thread spawned by worker w.

WriterOpen(w) ==
    /\ fpc[w] = "w_open"
    /\ wfile' = [wfile EXCEPT ![w] = current_filename]
    /\ fpc' = [fpc EXCEPT ![w] = "w_check"]
    /\ UNCHANGED <<state, stopper, q, current_filename, removed, mgrVars, wpc, readlog, written>>

WriterCheck(w) ==
    /\ fpc[w] = "w_check"
    /\ fpc' = [fpc EXCEPT ![w] = IF state = "RUNNING" THEN "w_ifq" ELSE "closed"]
    /\ UNCHANGED <<recVars, mgrVars, wpc, wfile, readlog, written>>

WriterIfQ(w) ==
    /\ fpc[w] = "w_ifq"
    /\ fpc' = [fpc EXCEPT ![w] = IF q # <<>> THEN "w_pop" ELSE "w_check"]
    /\ UNCHANGED <<recVars, mgrVars, wpc, wfile, readlog, written>>

WriterPopWrite(w) ==
    /\ fpc[w] = "w_pop"
    /\ IF q # <<>>
       THEN /\ q' = Tail(q)
            /\ written' = [written EXCEPT ![w] = Append(@, Head(q))]
            /\ fpc' = [fpc EXCEPT ![w] = "w_check"]
       ELSE /\ fpc' = [fpc EXCEPT ![w] = "dead_pop"]
            /\ UNCHANGED <<q, written>>
    /\ UNCHANGED <<state, stopper, current_filename, removed, mgrVars, wpc, wfile, readlog>>

WriterWriteFail(w) ==
    /\ fpc[w] = "w_pop"
    /\ q # <<>>
    /\ q' = Tail(q)
    /\ fpc' = [fpc EXCEPT ![w] = "dead_write"]
    /\ UNCHANGED <<state, stopper, current_filename, removed, mgrVars, wpc, wfile, readlog, written>>

----
\* Manager.run, executed by the main thread.

\* is_channel_live: the search request is answered with an entry matching the
\* channel, whose is_live flag is returned to run().
Poll ==
    /\ mpc = "poll"
    /\ \E live \in BOOLEAN : is_live' = live
    /\ reauths' = 0
    /\ mpc' = "check"
    /\ UNCHANGED <<recVars, caller, worker, nlaunched, thrVars>>

\* status_code == 401: auth(), then the nested is_channel_live call.
Reauth ==
    /\ mpc = "poll"
    /\ reauths < MaxReauths
    /\ reauths' = reauths + 1
    /\ UNCHANGED <<recVars, mpc, caller, is_live, worker, nlaunched, thrVars>>

\* The response holds no entry matching the channel.
PollNoMatch ==
    /\ mpc = "poll"
    /\ mpc' = "resp_no_match"
    /\ UNCHANGED <<recVars, caller, is_live, worker, nlaunched, reauths, thrVars>>

PollNotFound_swallow ==
    /\ mpc = "resp_no_match"
    /\ reauths' = 0
    /\ is_live' = FALSE
    /\ mpc' = "check"
    /\ UNCHANGED <<recVars, caller, worker, nlaunched, thrVars>>

\* raise ChannelNotFound(): it propagates out of run().
PollNotFound ==
    /\ mpc = "resp_no_match"
    /\ reauths' = 0
    /\ mpc' = "channel_not_found"
    /\ UNCHANGED <<recVars, caller, is_live, worker, nlaunched, thrVars>>

RunLaunch ==
    /\ mpc = "check"
    /\ state \in {"INITIALIZING", "STOPPED"}
    /\ is_live
    /\ nlaunched < MaxWorkers
    /\ nlaunched' = nlaunched + 1
    /\ worker' = nlaunched + 1
    /\ wpc' = [wpc EXCEPT ![nlaunched + 1] = "start_assert"]
    /\ mpc' = "sleep"
    /\ UNCHANGED <<recVars, caller, is_live, reauths, fpc, wfile, readlog, written>>

RunWait_launches ==
    /\ mpc = "check"
    /\ state \in {"INITIALIZING", "STOPPED"}
    /\ ~is_live
    /\ nlaunched < MaxWorkers
    /\ nlaunched' = nlaunched + 1
    /\ worker' = nlaunched + 1
    /\ wpc' = [wpc EXCEPT ![nlaunched + 1] = "start_assert"]
    /\ mpc' = "sleep"
    /\ UNCHANGED <<recVars, caller, is_live, reauths, fpc, wfile, readlog, written>>

RunWait ==
    /\ mpc = "check"
    /\ state \in {"INITIALIZING", "STOPPED"}
    /\ ~is_live
    /\ mpc' = "sleep"
    /\ UNCHANGED <<recVars, caller, is_live, worker, nlaunched, reauths, thrVars>>

RunElse ==
    /\ mpc = "check"
    /\ state \notin {"INITIALIZING", "STOPPED"}
    /\ mpc' = "assert179"
    /\ UNCHANGED <<recVars, caller, is_live, worker, nlaunched, reauths, thrVars>>

RunRunning ==
    /\ mpc = "assert179"
    /\ mpc' = IF state # "RUNNING" THEN "assert179_failed"
              ELSE IF is_live THEN "sleep" ELSE "stop_assert"
    /\ UNCHANGED <<recVars, caller, is_live, worker, nlaunched, reauths, thrVars>>

\* time.sleep(Manager.POLL_INTERVAL)
Sleep ==
    /\ mpc = "sleep"
    /\ mpc' = "poll"
    /\ UNCHANGED <<recVars, caller, is_live, worker, nlaunched, reauths, thrVars>>

----
\* Recorder.stop(th), executed by the main thread with th = Manager.worker.

StopAssert_unchecked ==
    /\ mpc = "stop_assert"
    /\ mpc' = "stop_set"
    /\ UNCHANGED <<recVars, caller, is_live, worker, nlaunched, reauths, thrVars>>

StopAssert ==
    /\ mpc = "stop_assert"
    /\ mpc' = IF state = "RUNNING" THEN "stop_set" ELSE "stop_assert_failed"
    /\ UNCHANGED <<recVars, caller, is_live, worker, nlaunched, reauths, thrVars>>

StopSet ==
    /\ mpc = "stop_set"
    /\ stopper' = TRUE
    /\ mpc' = "stop_wait"
    /\ UNCHANGED <<state, q, current_filename, removed, caller, is_live, worker, nlaunched, reauths, thrVars>>

StopWait ==
    /\ mpc = "stop_wait"
    /\ state = "STOPPED"
    /\ mpc' = "stop_join"
    /\ UNCHANGED <<recVars, caller, is_live, worker, nlaunched, reauths, thrVars>>

StopJoin ==
    /\ mpc = "stop_join"
    /\ wpc[worker] \in WTerminal
    /\ mpc' = "stop_remux"
    /\ UNCHANGED <<recVars, caller, is_live, worker, nlaunched, reauths, thrVars>>

\* subprocess.run of ffmpeg: it succeeds or fails; the result is not looked at.
StopRemux ==
    /\ mpc = "stop_remux"
    /\ \E rc \in {"remux_ok", "remux_failed"} : mpc' = rc
    /\ UNCHANGED <<recVars, caller, is_live, worker, nlaunched, reauths, thrVars>>

\* os.remove(self.current_filename)
StopRemove ==
    /\ mpc \in {"remux_ok", "remux_failed"}
    /\ removed' = removed \cup {current_filename}
    /\ mpc' = "stop_reset"
    /\ UNCHANGED <<state, stopper, q, current_filename, caller, is_live, worker, nlaunched, reauths, thrVars>>

\* os.remove raises OSError (the file is missing): stop() propagates it.
StopRemoveFail ==
    /\ mpc \in {"remux_ok", "remux_failed"}
    /\ mpc' = "remove_failed"
    /\ UNCHANGED <<recVars, caller, is_live, worker, nlaunched, reauths, thrVars>>

StopReset ==
    /\ mpc = "stop_reset"
    /\ stopper' = FALSE
    /\ mpc' = IF caller = "run" THEN "sleep" ELSE "exit"
    /\ UNCHANGED <<state, q, current_filename, removed, caller, is_live, worker, nlaunched, reauths, thrVars>>

----
\* __main__: KeyboardInterrupt raised in the main thread inside manager.run().

Interrupt ==
    /\ caller = "run"
    /\ mpc \in RunPcs
    /\ caller' = "handler"
    /\ mpc' = "handler_check"
    /\ reauths' = 0
    /\ UNCHANGED <<recVars, is_live, worker, nlaunched, thrVars>>

HandlerCheck ==
    /\ mpc = "handler_check"
    /\ mpc' = IF state = "RUNNING" THEN "stop_assert" ELSE "exit"
    /\ UNCHANGED <<recVars, caller, is_live, worker, nlaunched, reauths, thrVars>>

----
WorkerStep(w) ==
    \/ StartAssert(w)
    \/ StartRunningOpenOk(w)
    \/ StartRunningOpenFail(w)
    \/ StartLoopCheck(w)
    \/ StartReadData(w)
    \/ StartReadEmpty(w)
    \/ StartReadFail(w)
    \/ StartSetStopped(w)

WriterStep(w) ==
    \/ WriterOpen(w)
    \/ WriterCheck(w)
    \/ WriterIfQ(w)
    \/ WriterPopWrite(w)
    \/ WriterWriteFail(w)

\* The main thread while no KeyboardInterrupt is delivered.
RunStep ==
    \/ Poll
    \/ Reauth
    \/ PollNoMatch
    \/ PollNotFound
    \/ RunLaunch
    \/ RunWait
    \/ RunElse
    \/ RunRunning
    \/ Sleep
    \/ StopAssert
    \/ StopSet
    \/ StopWait
    \/ StopJoin
    \/ StopRemux
    \/ StopRemove
    \/ StopRemoveFail
    \/ StopReset

ManagerStep ==
    \/ RunStep
    \/ Interrupt
    \/ HandlerCheck

Next ==
    \/ ManagerStep
    \/ \E w \in Workers : WorkerStep(w)
    \/ \E w \in Workers : WriterStep(w)

Spec == Init /\ [][Next]_vars

\* Manager.run() with its workers and writers, no KeyboardInterrupt delivered.
NextRun ==
    \/ RunStep
    \/ \E w \in Workers : WorkerStep(w)
    \/ \E w \in Workers : WriterStep(w)

SpecRun == Init /\ [][NextRun]_vars

\* The control plane alone: the main thread and the workers.  No _writer step
\* writes state, stopper, Manager.worker or a worker's position, and no step of
\* the main thread or of a worker reads what a _writer writes.
NextControl ==
    \/ ManagerStep
    \/ \E w \in Workers : WorkerStep(w)

SpecControl == Init /\ [][NextControl]_vars

TypeOK ==
    /\ state \in {"INITIALIZING", "RUNNING", "STOPPED"}
    /\ stopper \in BOOLEAN
    /\ current_filename \in 0..MaxWorkers
    /\ removed \subseteq Workers
    /\ mpc \in RunPcs \cup MCrashed \cup {"handler_check", "exit"}
    /\ caller \in {"run", "handler"}
    /\ is_live \in BOOLEAN
    /\ worker \in 0..MaxWorkers
    /\ nlaunched \in 0..MaxWorkers
    /\ reauths \in 0..MaxReauths
    /\ \A w \in Workers :
          /\ wpc[w] \in WActive \cup WTerminal \cup {"idle"}
          /\ fpc[w] \in FTerminal \cup {"none", "w_open", "w_check", "w_ifq", "w_pop"}
          /\ wfile[w] \in 0..MaxWorkers
          /\ Len(readlog[w]) <= MaxReads
          /\ Len(written[w]) <= MaxReads
    /\ Len(q) <= MaxReads

----
\* C1: in every execution of Manager.run() the precondition assertions never
\* fail: no worker fails the assertion of Recorder.start() and the main thread
\* never fails the assertion of Recorder.stop().
C1_AssertionsNeverFail ==
    caller = "run" =>
        /\ mpc # "stop_assert_failed"
        /\ \A w \in Workers : wpc[w] # "assert_failed"

\* C2: at most one thread executing Recorder.start() is active at any time.
C2_AtMostOnePipeline ==
    Cardinality({w \in Workers : wpc[w] \in WActive}) <= 1

\* C3: when a session's file has been closed and its reader has left the read
\* loop, the chunks written to the file are exactly the chunks the reader read,
\* in order.
C3_NoDataLoss ==
    \A w \in Workers :
        (fpc[w] = "closed" /\ wpc[w] = "done") => written[w] = readlog[w]

\* C4: once stop() has passed the join (it is about to remux and delete, or
\* about to return) the writer of the retained session has ended, having
\* written every chunk that was read.
C4_StopWaitsForWriter ==
    mpc \in {"stop_remux", "remux_ok", "remux_failed", "stop_reset"} =>
        /\ fpc[worker] \in FTerminal
        /\ written[worker] = readlog[worker]

\* C5: every change of Recorder.state is INITIALIZING->RUNNING,
\* RUNNING->STOPPED or STOPPED->RUNNING.
C5_StateTransitions ==
    [][state' # state =>
          <<state, state'>> \in {<<"INITIALIZING", "RUNNING">>,
                                 <<"RUNNING", "STOPPED">>,
                                 <<"STOPPED", "RUNNING">>}]_vars

\* A later session is running in Manager.run after an earlier one ran to
\* STOPPED and its stop() completed.
C5_Restarted ==
    /\ state = "RUNNING"
    /\ caller = "run"
    /\ ~stopper
    /\ \E w \in Workers : wpc[w] = "done"
    /\ \E w \in Workers : wpc[w] = "loop_check" /\ worker = w

\* C6: when the byte source of the retained session failed to open, either the
\* state is not RUNNING or the Manager does not call stop() for that session.
C6_OpenFailureNotStuck ==
    \A w \in Workers :
        (wpc[w] = "dead_open" /\ worker = w) =>
            (state # "RUNNING" \/ mpc \notin StopPcs)

\* C7: when a read of the retained session fails the state is STOPPED, and a
\* worker whose byte source is exhausted does not start another read.
C7_ReadFailureStops ==
    \A w \in Workers :
        /\ (wpc[w] = "dead_read" /\ worker = w) => state = "STOPPED"
        /\ wpc[w] = "read" => ~Exhausted(w)

\* C8: when the interrupt handler has completed, no worker and no writer
\* thread is left running.
C8_GracefulShutdown ==
    mpc = "exit" =>
        \A w \in Workers :
            /\ wpc[w] \in WTerminal \cup {"idle"}
            /\ fpc[w] \in FTerminal \cup {"none"}

\* C9: whenever a worker enters its read loop the stop signal is unset, unless
\* it was set by a stop() issued for that worker's own session.
C9_NoStaleStopSignal ==
    [][\A w \in Workers :
          (wpc[w] = "set_running" /\ wpc'[w] = "loop_check") =>
              (~stopper' \/ worker' = w)]_vars

\* C10: when the stop() called by Manager.run returns, the state is STOPPED and
\* the retained worker thread has finished.
C10_StopReturnsStopped ==
    [][(mpc = "stop_reset" /\ mpc' = "sleep") =>
          (state' = "STOPPED" /\ wpc'[worker] \in WTerminal)]_vars

\* C11: within one is_channel_live call at most one re-authentication is made.
C11_OneReauth ==
    reauths <= 1

\* C12: when the search response has no matching entry, the step of the main
\* thread raises ChannelNotFound, leaving state, stop signal, queue and retained
\* handle unchanged and launching no worker; the exception ends run(), which
\* takes no further step (no start() and no stop() is issued).
C12_NotFoundPropagates ==
    [][/\ (mpc = "resp_no_match" /\ mpc' # mpc /\ caller' = caller) =>
            /\ mpc' = "channel_not_found"
            /\ UNCHANGED <<state, stopper, q, worker, nlaunched, wpc>>
       /\ mpc = "channel_not_found" => mpc' = "channel_not_found"]_vars

\* ChannelNotFound was raised while a session was running.
C12_NotFoundWhileRunning ==
    /\ mpc = "channel_not_found"
    /\ state = "RUNNING"
    /\ worker # 0

\* C13: the intermediate file is deleted only after the remuxer succeeded.
C13_DeleteOnlyOnSuccess ==
    [][removed' # removed => mpc = "remux_ok"]_vars

\* C14: stop() called while the state is STOPPED fails its precondition: the
\* main thread does not reach the wait loop or the join, changes neither state,
\* stop signal nor files, and takes no further step.
C14_StopWhenStopped ==
    [][/\ (mpc = "stop_assert" /\ state = "STOPPED" /\ mpc' # mpc /\ caller' = caller) =>
            /\ mpc' = "stop_assert_failed"
            /\ UNCHANGED <<state, stopper, removed>>
       /\ mpc = "stop_assert_failed" => mpc' = "stop_assert_failed"]_vars

\* stop() was called after the state had become STOPPED.
C14_StopCalledWhenStopped ==
    /\ mpc = "stop_assert_failed"
    /\ state = "STOPPED"

\* C15: a not-live poll while the state is INITIALIZING or STOPPED, and a live
\* poll while it is RUNNING, launch no worker, call no stop() and leave state,
\* stop signal and retained handle unchanged; a worker is launched only on a
\* live observation, and while none was launched the Recorder stays
\* INITIALIZING.
C15_IdlePollsChangeNothing ==
    /\ [][/\ (/\ mpc = "check"
              /\ ~is_live
              /\ state \in {"INITIALIZING", "STOPPED"}
              /\ mpc' # mpc
              /\ caller' = caller) =>
                 (/\ mpc' = "sleep"
                  /\ UNCHANGED <<state, stopper, worker, nlaunched, wpc>>)
          /\ (/\ mpc = "assert179"
              /\ is_live
              /\ state = "RUNNING"
              /\ mpc' # mpc
              /\ caller' = caller) =>
                 (/\ mpc' = "sleep"
                  /\ UNCHANGED <<state, stopper, worker, nlaunched, wpc>>)
          /\ (nlaunched' # nlaunched => is_live)]_vars
    /\ [](nlaunched = 0 =>
            (state = "INITIALIZING" /\ \A w \in Workers : wpc[w] = "idle"))

\* A not-live poll was handled while nothing had ever been launched.
C15_OfflinePollHandled ==
    /\ mpc = "sleep"
    /\ ~is_live
    /\ nlaunched = 0
    /\ state = "INITIALIZING"

C17_WriteFailureAborts ==
    [][\A w \in Workers :
          (fpc[w] = "dead_write" /\ wpc[w] = "loop_check" /\ wpc'[w] # "loop_check") =>
              wpc'[w] = "set_stopped"]_vars

\* C18: when the reader of a session starts after every earlier session has
\* ended and its stop() has completed, the queue is empty.
C18_QueueEmptyAtStart ==
    [][\A w \in Workers :
          (/\ wpc[w] = "set_running"
           /\ wpc'[w] = "loop_check"
           /\ ~stopper
           /\ \A v \in Workers \ {w} :
                 wpc[v] = "idle" \/ (wpc[v] = "done" /\ v < w)) =>
              q = <<>>]_vars

\* C19: the writer of an earlier session, whose reader is done and whose stop()
\* has completed, is not alive while a later session is running with a writer
\* of its own.
C19_OneWriter ==
    \A w1, w2 \in Workers :
        (/\ w1 < w2
         /\ wpc[w1] = "done"
         /\ fpc[w1] \notin FTerminal \cup {"none"}
         /\ ~stopper
         /\ state = "RUNNING"
         /\ wpc[w2] \in {"loop_check", "read"}) =>
            fpc[w2] \in FTerminal \cup {"none"}

\* C20: stop() never waits for STOPPED in a state where no thread is left that
\* could set it.
C20_StopNotStuck ==
    mpc = "stop_wait" =>
        (state = "STOPPED" \/ \E w \in Workers : wpc[w] \in WActive)
====
